---- MODULE Spec2Model ----
(***************************************************************************)
(* EduAir attendance server: the in-memory attendance log, the tap         *)
(* handler (handleAttendance) and the session close (POST                  *)
(* /admin/closeSession), with the requests interleaving at every await on  *)
(* the publisher (publishToHCS).                                           *)
(*                                                                         *)
(* JavaScript strings are sequences of tokens, so that concatenation is    *)
(* \o and the empty string (falsy, like undefined) is << >>.  A Set object *)
(* is a cell of the heap; the Map attendanceLog holds references to cells. *)
(*                                                                         *)
(* call is what runs outside the server: the attendance simulator with     *)
(* the salt it has fetched (SpecDevice), or one run of a function of       *)
(* lib/time.js or lib/crypto.js on its own, with its arguments and result  *)
(* (SpecTime, SpecSalt).  The server leaves it alone.                      *)
(***************************************************************************)
EXTENDS Integers, Sequences, FiniteSets, TLC

VARIABLES attendanceLog, heap, reqs, published, lastReply, now, call

vars == <<attendanceLog, heap, reqs, published, lastReply, now, call>>

-----------------------------------------------------------------------------
(* Bounds of the model *)

\* requests that pass validation and get a slot in reqs
MaxRequests == 2
\* students on the roster of the class that has one
NumStudents == 2

-----------------------------------------------------------------------------
(* Strings and configuration *)

Missing == << >>

MathClass == <<"math-9a">>
ArtClass == <<"art-7b">>
NoClass == <<"nope">>

S1 == <<"2025-10-01-0900">>
S2 == <<"2025-10-02-0900">>
NoSessionId == <<"1999">>

\* ISO start times, cut at the characters a URL does not carry as they are
Start1 == <<"2025-10-01T09", ":", "00", ":", "00", "+", "01", ":", "00">>
Start2 == <<"2025-10-02T09", ":", "00", ":", "00", "+", "01", ":", "00">>

\* new Date(iso).getTime(), in ms from the model's epoch
DateGetTime(iso) == IF iso = Start1 THEN 60 * 60000 ELSE 1500 * 60000

\* process.env.LATE_TOLERANCE_MIN || '5'
LATE_TOLERANCE_MIN == 5

\* process.env.SALT_SECRET || 'default-secret-change-me'
SALT_SECRET == <<"default-secret-change-me">>

\* process.env: the topics of the server's environment, all three set unless
\* the run is one that starts the server under an environment of its own
\* (SpecTopics)
processEnv ==
  IF call.fn = "topics"
    THEN call.env
    ELSE [TOPIC_ID_ATTENDANCE |-> <<"0.0.1001">>,
          TOPIC_ID_TELEMETRY |-> <<"0.0.1002">>,
          TOPIC_ID |-> <<"0.0.1000">>]

\* two classes whose ids and session ids hold the character ':': class "x:y"
\* with session "z", and class "x" with session "y:z"
SepClass == <<"x", ":", "y">>
SepSession == <<"z">>
PlainClass == <<"x">>
PlainSession == <<"y", ":", "z">>

\* data/schedule.json: class -> sessions
scheduleData ==
  [c \in {MathClass, ArtClass, SepClass, PlainClass} |->
     IF c = MathClass
       THEN [sessions |-> << [id |-> S1, startIso |-> Start1],
                             [id |-> S2, startIso |-> Start2] >>]
     ELSE IF c = SepClass
       THEN [sessions |-> << [id |-> SepSession, startIso |-> Start1] >>]
     ELSE IF c = PlainClass
       THEN [sessions |-> << [id |-> PlainSession, startIso |-> Start1] >>]
       ELSE [sessions |-> << [id |-> S1, startIso |-> Start1] >>]]

\* data/roster.json: class -> students; the art class has no roster
rosterData ==
  [c \in {MathClass} |->
     [students |-> [i \in 1..NumStudents |->
        [studentId |-> <<"s-", ToString(i)>>,
         name |-> <<"name-", ToString(i)>>,
         cardUidHex |-> <<"04", ToString(i)>>]]]]

NoSession == [id |-> Missing, startIso |-> Missing]

\* classSchedule.sessions.find(s => s.id === sessionId), null when there is none
findSession(classId, sessionId) ==
  IF classId \notin DOMAIN scheduleData
    THEN NoSession
    ELSE LET ss == scheduleData[classId].sessions
             hits == {i \in DOMAIN ss : ss[i].id = sessionId}
         IN IF hits = {} THEN NoSession
            ELSE ss[CHOOSE i \in hits : \A j \in hits : i <= j]

-----------------------------------------------------------------------------
(* lib/crypto.js: the hashes are injective on their message *)

sha256Hex(data) == <<"sha256(">> \o data \o <<")">>

hmacSha256Hex(secret, data) == <<"hmac(">> \o secret \o <<"|">> \o data \o <<")">>

\* the card UID passed on as it is, without hashing
computeUidHashRaw(uidHex, sessionSalt) == uidHex

computeUidHash(uidHex, sessionSalt) == <<"0x">> \o sha256Hex(uidHex \o sessionSalt)

deriveSessionSalt(secret, classId, sessionStartIso) ==
  hmacSha256Hex(secret, classId \o <<":">> \o sessionStartIso)

-----------------------------------------------------------------------------
(* lib/time.js and lib/topics.js *)

\* the comparison made strict: the end of the tolerance is late
withinToleranceStrict(ts, startIso, toleranceMinutes) ==
  (ts - DateGetTime(startIso)) < toleranceMinutes * 60000

\* diffMinutes = diffMs / 60000 is a real division, so
\* diffMinutes <= toleranceMinutes exactly when diffMs <= toleranceMinutes * 60000
withinTolerance(ts, startIso, toleranceMinutes) ==
  (ts - DateGetTime(startIso)) <= toleranceMinutes * 60000

\* every event taken for on time
determineStatusOnTime(ts, startIso, toleranceMinutes) == "present_on_time"

determineStatus(ts, startIso, toleranceMinutes) ==
  IF withinTolerance(ts, startIso, toleranceMinutes) THEN "present_on_time" ELSE "late"

\* a || b on strings
OrElse(a, b) == IF a # Missing THEN a ELSE b

\* the dedicated topics left out of the resolution
resolveTopicIdByTypeFallback(type) == processEnv.TOPIC_ID

resolveTopicIdByType(type) ==
  IF type = "attendance" THEN OrElse(processEnv.TOPIC_ID_ATTENDANCE, processEnv.TOPIC_ID)
  ELSE IF type = "telemetry" THEN OrElse(processEnv.TOPIC_ID_TELEMETRY, processEnv.TOPIC_ID)
  ELSE processEnv.TOPIC_ID

\* JavaScript's null, which is not the empty string
Null == <<"(null)">>

\* a || null
OrNull(a) == IF a # Missing THEN a ELSE Null

hasDedicatedTopics ==
  processEnv.TOPIC_ID_ATTENDANCE # Missing /\ processEnv.TOPIC_ID_TELEMETRY # Missing

getTopicConfig ==
  [attendance |-> OrNull(OrElse(processEnv.TOPIC_ID_ATTENDANCE, processEnv.TOPIC_ID)),
   telemetry |-> OrNull(OrElse(processEnv.TOPIC_ID_TELEMETRY, processEnv.TOPIC_ID)),
   fallback |-> OrNull(processEnv.TOPIC_ID),
   dedicated |-> hasDedicatedTopics]

-----------------------------------------------------------------------------
(* The attendance log *)

\* a Map is the set of its <<key, value>> entries
MapHas(map, key) == \E e \in map : e[1] = key

MapGet(map, key) == (CHOOSE e \in map : e[1] = key)[2]

MapSet(map, key, value) == {e \in map : e[1] # key} \cup {<<key, value>>}

logKey(classId, session) == classId \o <<":">> \o session

\* the members of the Set that log holds under key, {} when there is no entry
LedgerIn(log, hp, key) == IF MapHas(log, key) THEN hp[MapGet(log, key)] ELSE {}

Ledger(key) == LedgerIn(attendanceLog, heap, key)

\* the insertion with a Set made anew on every tap
TrackAttendanceAnew(log, hp, key, uidHash) ==
  [log |-> MapSet(log, key, Len(hp) + 1), heap |-> Append(hp, {uidHash})]

\* handleAttendance's insertion: the Set under key is created when missing,
\* then uidHash is added to it
TrackAttendance(log, hp, key, uidHash) ==
  IF ~MapHas(log, key)
    THEN [log |-> MapSet(log, key, Len(hp) + 1), heap |-> Append(hp, {uidHash})]
    ELSE [log |-> log, heap |-> [hp EXCEPT ![MapGet(log, key)] = @ \cup {uidHash}]]

\* closeSession's attendanceLog.get(logKey) || new Set(): the new Set is a
\* fresh cell that the Map does not hold
AttendedHashes(log, hp, key) ==
  IF MapHas(log, key)
    THEN [ref |-> MapGet(log, key), heap |-> hp]
    ELSE [ref |-> Len(hp) + 1, heap |-> Append(hp, {})]

-----------------------------------------------------------------------------
(* Requests *)

\* the answer to a request that was rejected before it awaited anything, kept
\* until its client has read it (replyRead); the handlers run one at a time,
\* so the next one is taken to run after that.  salt is a history field: the
\* session salt the handler had derived by then
Reply(kind, code, salt) == [kind |-> kind, code |-> code, salt |-> salt]

NoReply == Reply("none", 0, Missing)

\* reconciliation has taken the pseudonym for absent: its absent record is on
\* the topic, or a close is awaiting the publisher for it
AbsentReconciled(classId, session, uidHash) ==
  \/ \E i \in DOMAIN published :
       /\ published[i].payload.type = "attendance"
       /\ published[i].payload.status = "absent_marked"
       /\ published[i].payload.classId = classId
       /\ published[i].payload.session = session
       /\ published[i].payload.uidHash = uidHash
  \/ \E r \in DOMAIN reqs :
       /\ reqs[r].kind = "close"
       /\ reqs[r].pc = "await"
       /\ reqs[r].classId = classId
       /\ reqs[r].session = session
       /\ computeUidHash(rosterData[classId].students[reqs[r].idx].cardUidHex,
                         reqs[r].salt) = uidHash

\* a request that passed validation.  pre, post, during, alone and afterAbsent
\* are history fields: the ledger of its session when it began and when it
\* was answered, the requests that were in flight when it began, whether no
\* other request has taken a step while this one was awaiting the publisher,
\* and (a tap) whether reconciliation had taken its pseudonym for absent when
\* it arrived
NewReq(kind, classId, session) ==
  [kind |-> kind, classId |-> classId, session |-> session, uidHash |-> Missing,
   ts |-> 0, status |-> "", pc |-> "await", code |-> 0, marker |-> 0,
   set |-> 0, salt |-> Missing, idx |-> 0, absentees |-> << >>,
   totalStudents |-> 0, attended |-> 0, markedAbsent |-> 0,
   inLedger |-> FALSE,
   pre |-> Ledger(logKey(classId, session)), post |-> {},
   during |-> {i \in DOMAIN reqs : reqs[i].pc = "await"},
   alone |-> TRUE, afterAbsent |-> FALSE]

\* the step of request r (0: a request that begins) is seen by the others in flight
Interleave(rs, r) ==
  [i \in DOMAIN rs |->
     IF i # r /\ rs[i].pc = "await" THEN [rs[i] EXCEPT !.alone = FALSE] ELSE rs[i]]

Payload(classId, session, uidHash, status, ts) ==
  [type |-> "attendance", classId |-> classId, session |-> session,
   uidHash |-> uidHash, status |-> status, ts |-> ts]

\* a message the topic has accepted.  by and inLedger are history fields: the
\* request that published it, and whether its uidHash was in the session's
\* ledger when the handler decided to publish
Message(topicId, payload, r, inLedger) ==
  [topicId |-> topicId, payload |-> payload, by |-> r, inLedger |-> inLedger]

\* nothing runs outside the server
NoCall == [fn |-> "none"]

Init ==
  /\ attendanceLog = {}
  /\ heap = << >>
  /\ reqs = << >>
  /\ published = << >>
  /\ lastReply = NoReply
  /\ now = DateGetTime(Start1)   \* Date.now(): the requests arrive at the session's start
  /\ call = NoCall

-----------------------------------------------------------------------------
(* handleAttendance: POST /ingest/attendance *)

\* the validation without its uidHash test
TapMissingFieldsNoUid(classId, session, uidHash) ==
  classId = Missing \/ session = Missing

\* the validation turning down a pseudonym that reconciliation took for absent
TapMissingOrReconciled(classId, session, uidHash) ==
  \/ classId = Missing \/ session = Missing \/ uidHash = Missing
  \/ AbsentReconciled(classId, session, uidHash)

TapMissingFields(classId, session, uidHash) ==
  classId = Missing \/ session = Missing \/ uidHash = Missing

handleAttendance(classId, session, uidHash, ts) ==
  LET sessionInfo == findSession(classId, session)
      timestamp == IF ts # 0 THEN ts ELSE now
      status == determineStatus(timestamp, sessionInfo.startIso, LATE_TOLERANCE_MIN)
      key == logKey(classId, session)
      tracked == TrackAttendance(attendanceLog, heap, key, uidHash)
  IN /\ lastReply = NoReply
     /\ IF TapMissingFields(classId, session, uidHash)
          THEN /\ lastReply' = Reply("tap", 400, Missing)
               /\ UNCHANGED <<attendanceLog, heap, reqs, published, now, call>>
        ELSE IF sessionInfo = NoSession
          THEN /\ lastReply' = Reply("tap", 404, Missing)
               /\ UNCHANGED <<attendanceLog, heap, reqs, published, now, call>>
        ELSE /\ Len(reqs) < MaxRequests
             /\ attendanceLog' = tracked.log
             /\ heap' = tracked.heap
             /\ reqs' = Append(Interleave(reqs, 0),
                               [NewReq("tap", classId, session) EXCEPT
                                  !.uidHash = uidHash, !.ts = timestamp, !.status = status,
                                  !.inLedger = uidHash \in Ledger(key),
                                  !.afterAbsent = AbsentReconciled(classId, session, uidHash)])
             /\ UNCHANGED <<published, lastReply, now, call>>

\* publishToHCS resolved: the message is on the topic, the response is sent
handleAttendancePublished(r) ==
  /\ lastReply = NoReply
  /\ r \in DOMAIN reqs
  /\ reqs[r].kind = "tap"
  /\ reqs[r].pc = "await"
  /\ LET req == reqs[r]
         payload == Payload(req.classId, req.session, req.uidHash, req.status, req.ts)
     IN /\ published' = Append(published,
                               Message(resolveTopicIdByType("attendance"), payload, r, req.inLedger))
        /\ reqs' = [Interleave(reqs, r) EXCEPT ![r] =
                      [req EXCEPT !.pc = "done", !.code = 200, !.marker = Len(published) + 1,
                                  !.post = Ledger(logKey(req.classId, req.session))]]
  /\ UNCHANGED <<attendanceLog, heap, lastReply, now, call>>

\* publishToHCS threw: the catch block answers 500
handleAttendanceCatch(r) ==
  /\ lastReply = NoReply
  /\ r \in DOMAIN reqs
  /\ reqs[r].kind = "tap"
  /\ reqs[r].pc = "await"
  /\ reqs' = [Interleave(reqs, r) EXCEPT ![r] =
                [@ EXCEPT !.pc = "done", !.code = 500,
                          !.post = Ledger(logKey(reqs[r].classId, reqs[r].session))]]
  /\ UNCHANGED <<attendanceLog, heap, published, lastReply, now, call>>

-----------------------------------------------------------------------------
(* POST /admin/closeSession *)

CloseMissingFields(classId, session) == classId = Missing \/ session = Missing

\* the membership test left out: every student is taken for an absentee
NotAttendedAlways(set, uidHash) == TRUE

\* !attendedHashes.has(uidHash)
NotAttended(set, uidHash) == uidHash \notin set

\* the absentee is not added to the Set
MarkAttendedForgotten(set, uidHash) == set

\* attendedHashes.add(uidHash), after the publish returned
MarkAttended(set, uidHash) == set \cup {uidHash}

\* the size of the Set after the absentees were added to it
AttendedCountAfter(size, nAbsentees) == size

\* attended: attendedHashes.size - absentees.length
AttendedCount(size, nAbsentees) == size - nAbsentees

\* the loop that does not move on from the student whose record it has
\* published
NextAbsenteeAgain(students, set, salt, from) ==
  IF from > 1 THEN from - 1
  ELSE IF \A i \in DOMAIN students :
            ~NotAttended(set, computeUidHash(students[i].cardUidHex, salt)) THEN 0
  ELSE CHOOSE i \in DOMAIN students :
         /\ NotAttended(set, computeUidHash(students[i].cardUidHex, salt))
         /\ \A j \in 1..(i - 1) :
              ~NotAttended(set, computeUidHash(students[j].cardUidHex, salt))

\* the for loop from student `from` up to its next await: the index of the
\* first student whose hash is not in the set, 0 when the loop ends
NextAbsentee(students, set, salt, from) ==
  LET todo == {i \in from..Len(students) :
                 NotAttended(set, computeUidHash(students[i].cardUidHex, salt))}
  IN IF todo = {} THEN 0 ELSE CHOOSE i \in todo : \A j \in todo : i <= j

\* attendanceLog.set(logKey, attendedHashes) once the loop has ended
WriteBack(log, key, ref) == MapSet(log, key, ref)

\* the clock read anew for every record
CloseTimestampNow(req, clock) == clock

\* ts of an absent record: timestamp, read from the clock once before the loop
\* and kept in the request
CloseTimestamp(req, clock) == req.ts

\* runs the loop from student `from`: either it stops at the await of the next
\* absentee's publish, or it ends, writes the Set back and answers
CloseLoop(req, hp, log, from) ==
  LET students == rosterData[req.classId].students
      key == logKey(req.classId, req.session)
      j == NextAbsentee(students, hp[req.set], req.salt, from)
  IN IF j # 0
       THEN [req |-> [req EXCEPT
                        !.idx = j,
                        !.inLedger = computeUidHash(students[j].cardUidHex, req.salt)
                                       \in LedgerIn(log, hp, key)],
             log |-> log]
       ELSE [req |-> [req EXCEPT
                        !.pc = "done", !.code = 200, !.idx = 0,
                        !.totalStudents = Len(students),
                        !.attended = AttendedCount(Cardinality(hp[req.set]), Len(req.absentees)),
                        !.markedAbsent = Len(req.absentees),
                        !.post = hp[req.set]],
             log |-> WriteBack(log, key, req.set)]

closeSession(classId, session) ==
  LET sessionInfo == findSession(classId, session)
      key == logKey(classId, session)
      got == AttendedHashes(attendanceLog, heap, key)
      sessionSalt == deriveSessionSalt(SALT_SECRET, classId, sessionInfo.startIso)
      req == [NewReq("close", classId, session) EXCEPT
                !.set = got.ref, !.salt = sessionSalt, !.ts = now]
      out == CloseLoop(req, got.heap, attendanceLog, 1)
  IN /\ lastReply = NoReply
     /\ IF CloseMissingFields(classId, session)
          THEN /\ lastReply' = Reply("close", 400, Missing)
               /\ UNCHANGED <<attendanceLog, heap, reqs, published, now, call>>
        ELSE IF sessionInfo = NoSession
          THEN /\ lastReply' = Reply("close", 404, Missing)
               /\ UNCHANGED <<attendanceLog, heap, reqs, published, now, call>>
        ELSE IF classId \notin DOMAIN rosterData
          THEN /\ lastReply' = Reply("close", 404, Missing)
               /\ UNCHANGED <<attendanceLog, heap, reqs, published, now, call>>
        ELSE /\ Len(reqs) < MaxRequests
             /\ heap' = got.heap
             /\ attendanceLog' = out.log
             /\ reqs' = Append(Interleave(reqs, 0), out.req)
             /\ UNCHANGED <<published, lastReply, now, call>>

\* publishToHCS resolved for the absentee at idx: the message is on the topic,
\* the absentee is pushed and added to the Set, and the loop goes on
closeSessionPublished(r) ==
  /\ lastReply = NoReply
  /\ r \in DOMAIN reqs
  /\ reqs[r].kind = "close"
  /\ reqs[r].pc = "await"
  /\ LET req == reqs[r]
         student == rosterData[req.classId].students[req.idx]
         uidHash == computeUidHash(student.cardUidHex, req.salt)
         payload == Payload(req.classId, req.session, uidHash, "absent_marked",
                            CloseTimestamp(req, now))
         pushed == [req EXCEPT !.absentees =
                      Append(@, [studentId |-> student.studentId, uidHash |-> uidHash])]
         hp == [heap EXCEPT ![req.set] = MarkAttended(@, uidHash)]
         out == CloseLoop(pushed, hp, attendanceLog, req.idx + 1)
     IN /\ published' = Append(published,
                               Message(resolveTopicIdByType("attendance"), payload, r, req.inLedger))
        /\ heap' = hp
        /\ attendanceLog' = out.log
        /\ reqs' = [Interleave(reqs, r) EXCEPT ![r] = out.req]
  /\ UNCHANGED <<lastReply, now, call>>

\* publishToHCS threw inside the loop: the catch block answers 500 and the
\* rest of the handler, the write-back included, does not run
closeSessionCatch(r) ==
  /\ lastReply = NoReply
  /\ r \in DOMAIN reqs
  /\ reqs[r].kind = "close"
  /\ reqs[r].pc = "await"
  /\ reqs' = [Interleave(reqs, r) EXCEPT ![r] =
                [@ EXCEPT !.pc = "done", !.code = 500,
                          !.post = Ledger(logKey(reqs[r].classId, reqs[r].session))]]
  /\ UNCHANGED <<attendanceLog, heap, published, lastReply, now, call>>

-----------------------------------------------------------------------------
(* The client of a rejected request reads the answer *)

replyRead ==
  /\ lastReply # NoReply
  /\ lastReply' = NoReply
  /\ UNCHANGED <<attendanceLog, heap, reqs, published, now, call>>

-----------------------------------------------------------------------------
(* Inputs of the requests *)

\* a card that is on no roster
StrangerUid == <<"04", "FF">>

RosterHashes(classId, session) ==
  LET salt == deriveSessionSalt(SALT_SECRET, classId, findSession(classId, session).startIso)
      students == rosterData[classId].students
  IN {computeUidHash(students[i].cardUidHex, salt) : i \in DOMAIN students}

\* the pseudonym of the first student of the math class in its first session
FirstHash ==
  computeUidHash(rosterData[MathClass].students[1].cardUidHex,
                 deriveSessionSalt(SALT_SECRET, MathClass, Start1))

StrangerHash == computeUidHash(StrangerUid, deriveSessionSalt(SALT_SECRET, MathClass, Start1))

TapInput(classId, session, uidHash, ts) ==
  [classId |-> classId, session |-> session, uidHash |-> uidHash, ts |-> ts]

\* a timestamp one ms past the tolerance of the first session
LateTs == DateGetTime(Start1) + LATE_TOLERANCE_MIN * 60000 + 1

\* taps of the first session of the math class, without ts (0: Date.now() is
\* used), by every card of its roster and by a stranger; a late tap by the
\* first student; and one tap for each way of being rejected
TapInputs ==
  {TapInput(MathClass, S1, h, 0) : h \in RosterHashes(MathClass, S1) \cup {StrangerHash}}
    \cup {TapInput(MathClass, S1, FirstHash, LateTs)}
    \cup {TapInput(Missing, S1, StrangerHash, 0),
          TapInput(MathClass, Missing, StrangerHash, 0),
          TapInput(MathClass, S1, Missing, 0),
          TapInput(MathClass, NoSessionId, StrangerHash, 0),
          TapInput(NoClass, S1, StrangerHash, 0)}

CloseInput(classId, session) == [classId |-> classId, session |-> session]

CloseInputs ==
  {CloseInput(MathClass, S1),
   CloseInput(Missing, S1),
   CloseInput(MathClass, Missing),
   CloseInput(MathClass, NoSessionId),
   CloseInput(NoClass, S1),
   CloseInput(ArtClass, S1)}

Next ==
  \/ \E in \in TapInputs : handleAttendance(in.classId, in.session, in.uidHash, in.ts)
  \/ \E r \in 1..MaxRequests : handleAttendancePublished(r)
  \/ \E r \in 1..MaxRequests : handleAttendanceCatch(r)
  \/ \E in \in CloseInputs : closeSession(in.classId, in.session)
  \/ \E r \in 1..MaxRequests : closeSessionPublished(r)
  \/ \E r \in 1..MaxRequests : closeSessionCatch(r)
  \/ replyRead

Spec == Init /\ [][Next]_vars

\* the server once the first student of the math class has tapped for the first
\* session: the Map holds the session's Set with that student's hash.  The
\* tap itself is over; its request and its message are not part of the run.
InitAfterTap ==
  /\ attendanceLog = TrackAttendance({}, << >>, logKey(MathClass, S1), FirstHash).log
  /\ heap = TrackAttendance({}, << >>, logKey(MathClass, S1), FirstHash).heap
  /\ reqs = << >>
  /\ published = << >>
  /\ lastReply = NoReply
  /\ now = DateGetTime(Start1)
  /\ call = NoCall

SpecAfterTap == InitAfterTap /\ [][Next]_vars

-----------------------------------------------------------------------------
(* lib/time.js on its own: determineStatus run once on given arguments *)

\* the largest tolerance, in minutes
MaxTolerance == 5

\* the server has received nothing
ServerIdle ==
  /\ attendanceLog = {}
  /\ heap = << >>
  /\ reqs = << >>
  /\ published = << >>
  /\ lastReply = NoReply
  /\ now = DateGetTime(Start1)

\* event timestamps around the start of the session and around the end of the
\* tolerance, and one a minute before the start
TimeStamps(startIso, toleranceMinutes) ==
  {DateGetTime(startIso) + d : d \in {-60000, -1, 0, 1}}
    \cup {DateGetTime(startIso) + toleranceMinutes * 60000 + d : d \in {-1, 0, 1}}

TimeCall(ts, startIso, toleranceMinutes) ==
  [fn |-> "determineStatus", ts |-> ts, startIso |-> startIso,
   toleranceMinutes |-> toleranceMinutes, done |-> FALSE, result |-> ""]

InitTime ==
  /\ ServerIdle
  /\ call \in {TimeCall(ts, startIso, T) :
                 ts \in UNION {TimeStamps(s, t) : s \in {Start1, Start2}, t \in 0..MaxTolerance},
                 startIso \in {Start1, Start2},
                 T \in 0..MaxTolerance}

determineStatusCall ==
  /\ call.fn = "determineStatus"
  /\ ~call.done
  /\ call' = [call EXCEPT
                !.done = TRUE,
                !.result = determineStatus(call.ts, call.startIso, call.toleranceMinutes)]
  /\ UNCHANGED <<attendanceLog, heap, reqs, published, lastReply, now>>

NextTime == determineStatusCall

SpecTime == InitTime /\ [][NextTime]_vars

-----------------------------------------------------------------------------
(* lib/crypto.js on its own: the salts of two sessions, then the pseudonyms *)
(* of one card under the two salts                                          *)

\* the longest class id and start string, in characters
MaxIdLen == 2

\* the characters of the ids: a letter and the separator
IdChars == {"a", ":"}

\* the non-empty strings of at most n characters
Strings(n) == UNION {[1..k -> IdChars] : k \in 1..n}

SessionPairs == Strings(MaxIdLen) \X Strings(MaxIdLen)

\* a and b are <<classId, sessionStartIso>> pairs
SaltCall(a, b) ==
  [fn |-> "deriveSessionSalt", a |-> a, b |-> b, salts |-> << >>, hashes |-> << >>]

InitSalt ==
  /\ ServerIdle
  /\ call \in {SaltCall(a, b) : a \in SessionPairs, b \in SessionPairs}

deriveSessionSaltCall ==
  /\ call.fn = "deriveSessionSalt"
  /\ call.salts = << >>
  /\ call' = [call EXCEPT
                !.salts = << deriveSessionSalt(SALT_SECRET, call.a[1], call.a[2]),
                             deriveSessionSalt(SALT_SECRET, call.b[1], call.b[2]) >>]
  /\ UNCHANGED <<attendanceLog, heap, reqs, published, lastReply, now>>

\* one card, that of the first student, hashed under each of the two salts
computeUidHashCall ==
  /\ call.fn = "deriveSessionSalt"
  /\ call.salts # << >>
  /\ call.hashes = << >>
  /\ LET uidHex == rosterData[MathClass].students[1].cardUidHex
     IN call' = [call EXCEPT
                   !.hashes = << computeUidHash(uidHex, call.salts[1]),
                                 computeUidHash(uidHex, call.salts[2]) >>]
  /\ UNCHANGED <<attendanceLog, heap, reqs, published, lastReply, now>>

NextSalt == deriveSessionSaltCall \/ computeUidHashCall

SpecSalt == InitSalt /\ [][NextSalt]_vars

-----------------------------------------------------------------------------
(* GET /session/salt, and the attendance simulator as the device *)

\* the handler of GET /session/salt on the parsed query: its answer
getSessionSalt(classId, start) ==
  IF classId = Missing \/ start = Missing
    THEN Reply("salt", 400, Missing)
    ELSE Reply("salt", 200, deriveSessionSalt(SALT_SECRET, classId, start))

\* the start passed on as it is, without escaping
encodeURIComponentNone(str) == str

\* encodeURIComponent, on the characters the ids and starts are made of
encodeURIComponent(str) ==
  [k \in DOMAIN str |->
     IF str[k] = ":" THEN "%3A"
     ELSE IF str[k] = "+" THEN "%2B"
     ELSE IF str[k] = " " THEN "%20"
     ELSE str[k]]

\* req.query: the value of a query parameter as the server's parser reads it
QueryDecode(str) ==
  [k \in DOMAIN str |->
     IF str[k] = "+" THEN " "
     ELSE IF str[k] = "%3A" THEN ":"
     ELSE IF str[k] = "%2B" THEN "+"
     ELSE IF str[k] = "%20" THEN " "
     ELSE str[k]]

\* the simulator's configuration; its cards are those of the roster
CLASS_ID == MathClass
SESSION_ID == S1
SESSION_START == Start1

STUDENTS ==
  [i \in 1..NumStudents |->
     [id |-> rosterData[CLASS_ID].students[i].studentId,
      name |-> rosterData[CLASS_ID].students[i].name,
      cardUid |-> rosterData[CLASS_ID].students[i].cardUidHex]]

\* the simulator has started and has not fetched the salt
InitDevice ==
  /\ ServerIdle
  /\ call = [fn |-> "simulator", sessionSalt |-> Missing]

\* fetchSessionSalt: the URL is built, the server parses its query and answers,
\* the simulator keeps data.sessionSalt
fetchSessionSalt ==
  /\ call.fn = "simulator"
  /\ call.sessionSalt = Missing
  /\ LET query == [classId |-> QueryDecode(CLASS_ID),
                   start |-> QueryDecode(encodeURIComponent(SESSION_START))]
         data == getSessionSalt(query.classId, query.start)
     IN call' = [call EXCEPT !.sessionSalt = data.salt]
  /\ UNCHANGED <<attendanceLog, heap, reqs, published, lastReply, now>>

\* the timestamps the simulator taps with: sessionStartTime + offset, of 0 to 2
\* minutes for an on-time tap and of 6 to 15 minutes for a late one
SimulatorTimes == {DateGetTime(SESSION_START) + m * 60000 : m \in {0, 6}}

\* one round of the simulator's loop for student i: the students before i were
\* skipped or have been answered, and the tap of i is submitted
simulateAttendance(i, ts) ==
  /\ call.fn = "simulator"
  /\ call.sessionSalt # Missing
  /\ \A r \in DOMAIN reqs :
       reqs[r].kind = "tap" =>
         /\ reqs[r].pc = "done"
         /\ \E j \in 1..(i - 1) :
              reqs[r].uidHash = computeUidHash(STUDENTS[j].cardUid, call.sessionSalt)
  /\ handleAttendance(CLASS_ID, SESSION_ID,
                      computeUidHash(STUDENTS[i].cardUid, call.sessionSalt), ts)

NextDevice ==
  \/ fetchSessionSalt
  \/ \E i \in 1..NumStudents : \E ts \in SimulatorTimes : simulateAttendance(i, ts)
  \/ \E r \in 1..MaxRequests : handleAttendancePublished(r)
  \/ \E r \in 1..MaxRequests : handleAttendanceCatch(r)
  \/ closeSession(CLASS_ID, SESSION_ID)
  \/ \E r \in 1..MaxRequests : closeSessionPublished(r)
  \/ \E r \in 1..MaxRequests : closeSessionCatch(r)

SpecDevice == InitDevice /\ [][NextDevice]_vars

-----------------------------------------------------------------------------
(* The other endpoints: telemetry, POST /ingest, salt, schedule, classes, *)
(* health                                                                 *)

Unknown == <<"unknown">>

TelemetryPayload(classId, session, deviceId, sensors, ts) ==
  [type |-> "telemetry", classId |-> classId, session |-> session,
   deviceId |-> deviceId, sensors |-> sensors, ts |-> ts]

\* POST /ingest/telemetry
handleTelemetry(classId, session, sensors, deviceId, ts) ==
  /\ lastReply = NoReply
  /\ IF sensors = Missing
       THEN /\ lastReply' = Reply("telemetry", 400, Missing)
            /\ UNCHANGED <<attendanceLog, heap, reqs, published, now, call>>
       ELSE /\ Len(reqs) < MaxRequests
            /\ reqs' = Append(Interleave(reqs, 0),
                              [NewReq("telemetry", OrElse(classId, Unknown),
                                      OrElse(session, Unknown))
                                 EXCEPT !.ts = IF ts # 0 THEN ts ELSE now]
                                @@ [deviceId |-> OrElse(deviceId, Unknown),
                                    sensors |-> sensors])
            /\ UNCHANGED <<attendanceLog, heap, published, lastReply, now, call>>

\* publishToHCS resolved: the telemetry message is on its topic
handleTelemetryPublished(r) ==
  /\ lastReply = NoReply
  /\ r \in DOMAIN reqs
  /\ reqs[r].kind = "telemetry"
  /\ reqs[r].pc = "await"
  /\ LET req == reqs[r]
         payload == TelemetryPayload(req.classId, req.session, req.deviceId, req.sensors, req.ts)
     IN /\ published' = Append(published,
                               Message(resolveTopicIdByType("telemetry"), payload, r, FALSE))
        /\ reqs' = [Interleave(reqs, r) EXCEPT ![r] =
                      [req EXCEPT !.pc = "done", !.code = 200, !.marker = Len(published) + 1]]
  /\ UNCHANGED <<attendanceLog, heap, lastReply, now, call>>

\* publishToHCS threw: the catch block answers 500
handleTelemetryCatch(r) ==
  /\ lastReply = NoReply
  /\ r \in DOMAIN reqs
  /\ reqs[r].kind = "telemetry"
  /\ reqs[r].pc = "await"
  /\ reqs' = [Interleave(reqs, r) EXCEPT ![r] = [@ EXCEPT !.pc = "done", !.code = 500]]
  /\ UNCHANGED <<attendanceLog, heap, published, lastReply, now, call>>

\* a request body; the fields it does not carry are Missing (ts: 0)
Body(type, classId, session, uidHash, sensors) ==
  [type |-> type, classId |-> classId, session |-> session, uidHash |-> uidHash,
   sensors |-> sensors, deviceId |-> Missing, ts |-> 0]

\* the routing sending every body to the attendance handler
ingestAll(body) ==
  handleAttendance(body.classId, body.session, body.uidHash, body.ts)

\* POST /ingest: attendance bodies go to handleAttendance, all others to
\* handleTelemetry
ingest(body) ==
  IF body.type = <<"attendance">>
    THEN handleAttendance(body.classId, body.session, body.uidHash, body.ts)
    ELSE handleTelemetry(body.classId, body.session, body.sensors, body.deviceId, body.ts)

\* GET /session/salt
sessionSaltRoute(classId, start) ==
  /\ lastReply = NoReply
  /\ lastReply' = getSessionSalt(classId, start)
  /\ UNCHANGED <<attendanceLog, heap, reqs, published, now, call>>

\* GET /schedule/:classId
schedule(classId) ==
  /\ lastReply = NoReply
  /\ lastReply' = Reply("schedule", IF classId \in DOMAIN scheduleData THEN 200 ELSE 404, Missing)
  /\ UNCHANGED <<attendanceLog, heap, reqs, published, now, call>>

\* GET /classes
classes ==
  /\ lastReply = NoReply
  /\ lastReply' = Reply("classes", 200, Missing)
  /\ UNCHANGED <<attendanceLog, heap, reqs, published, now, call>>

\* GET /
health ==
  /\ lastReply = NoReply
  /\ lastReply' = Reply("health", 200, Missing)
  /\ UNCHANGED <<attendanceLog, heap, reqs, published, now, call>>

Sensors == <<"co2=612">>

\* bodies posted to /ingest: a tap; telemetry; a tap whose type is misspelt;
\* telemetry without type
IngestBodies ==
  {Body(<<"attendance">>, MathClass, S1, FirstHash, Missing),
   Body(<<"telemetry">>, MathClass, S1, Missing, Sensors),
   Body(<<"attendence">>, MathClass, S1, FirstHash, Missing),
   Body(Missing, Missing, Missing, FirstHash, Sensors)}

\* bodies posted to /ingest/telemetry: with sensors, and without
TelemetryBodies ==
  {Body(<<"telemetry">>, MathClass, S1, FirstHash, Sensors),
   Body(<<"telemetry">>, MathClass, S1, Missing, Missing)}

SaltQueries ==
  {[classId |-> MathClass, start |-> Start1], [classId |-> MathClass, start |-> Missing]}

NextEndpoints ==
  \/ \E body \in IngestBodies : ingest(body)
  \/ \E body \in TelemetryBodies :
       handleTelemetry(body.classId, body.session, body.sensors, body.deviceId, body.ts)
  \/ \E r \in 1..MaxRequests : handleTelemetryPublished(r)
  \/ \E r \in 1..MaxRequests : handleTelemetryCatch(r)
  \/ \E q \in SaltQueries : sessionSaltRoute(q.classId, q.start)
  \/ \E classId \in {MathClass, NoClass} : schedule(classId)
  \/ classes
  \/ health
  \/ \E h \in RosterHashes(MathClass, S1) : handleAttendance(MathClass, S1, h, 0)
  \/ \E r \in 1..MaxRequests : handleAttendancePublished(r)
  \/ \E r \in 1..MaxRequests : handleAttendanceCatch(r)
  \/ closeSession(MathClass, S1)
  \/ \E r \in 1..MaxRequests : closeSessionPublished(r)
  \/ \E r \in 1..MaxRequests : closeSessionCatch(r)
  \/ replyRead

SpecEndpoints == Init /\ [][NextEndpoints]_vars

-----------------------------------------------------------------------------
(* Several sessions: taps and closes for sessions of different keys *)

\* taps for the two sessions of the math class and for the sessions of the
\* two classes with ':' in their ids
KeyTaps ==
  {TapInput(MathClass, S1, FirstHash, 0),
   TapInput(MathClass, S2, StrangerHash, 0),
   TapInput(SepClass, SepSession, FirstHash, 0),
   TapInput(PlainClass, PlainSession, StrangerHash, 0)}

KeyCloses == {CloseInput(MathClass, S1), CloseInput(MathClass, S2)}

NextKeys ==
  \/ \E in \in KeyTaps : handleAttendance(in.classId, in.session, in.uidHash, in.ts)
  \/ \E r \in 1..MaxRequests : handleAttendancePublished(r)
  \/ \E r \in 1..MaxRequests : handleAttendanceCatch(r)
  \/ \E in \in KeyCloses : closeSession(in.classId, in.session)
  \/ \E r \in 1..MaxRequests : closeSessionPublished(r)
  \/ \E r \in 1..MaxRequests : closeSessionCatch(r)

SpecKeys == Init /\ [][NextKeys]_vars

-----------------------------------------------------------------------------
(* The server with a clock that moves on while requests await the publisher *)

\* ms the clock moves on in all
MaxTicks == 1

\* Date.now() has moved on by one ms
Tick ==
  /\ now < DateGetTime(Start1) + MaxTicks
  /\ now' = now + 1
  /\ UNCHANGED <<attendanceLog, heap, reqs, published, lastReply, call>>

\* the pseudonym of the roster's second student: a close after its tap goes
\* from the first student to the third
SecondHash ==
  computeUidHash(rosterData[MathClass].students[2].cardUidHex,
                 deriveSessionSalt(SALT_SECRET, MathClass, Start1))

NextClock ==
  \/ handleAttendance(MathClass, S1, SecondHash, 0)
  \/ \E r \in 1..MaxRequests : handleAttendancePublished(r)
  \/ \E r \in 1..MaxRequests : handleAttendanceCatch(r)
  \/ closeSession(MathClass, S1)
  \/ \E r \in 1..MaxRequests : closeSessionPublished(r)
  \/ \E r \in 1..MaxRequests : closeSessionCatch(r)
  \/ Tick

SpecClock == Init /\ [][NextClock]_vars

-----------------------------------------------------------------------------
(* The server under every environment of topics *)

\* each of the three topic variables is set or not
Envs ==
  [TOPIC_ID_ATTENDANCE : {Missing, <<"0.0.1001">>},
   TOPIC_ID_TELEMETRY : {Missing, <<"0.0.1002">>},
   TOPIC_ID : {Missing, <<"0.0.1000">>}]

\* the server has started under env; the health endpoint has not been asked
InitTopics ==
  /\ ServerIdle
  /\ call \in {[fn |-> "topics", env |-> env, done |-> FALSE,
                 resolved |-> [type \in {"attendance", "telemetry", "other"} |-> Missing],
                 config |-> [attendance |-> Missing, telemetry |-> Missing,
                             fallback |-> Missing, dedicated |-> FALSE]] : env \in Envs}

\* the topics as the health endpoint reports them (getTopicConfig), next to
\* what resolveTopicIdByType resolves for each type
topicsCall ==
  /\ call.fn = "topics"
  /\ ~call.done
  /\ call' = [call EXCEPT
                !.done = TRUE,
                !.resolved = [type \in {"attendance", "telemetry", "other"} |->
                                resolveTopicIdByType(type)],
                !.config = getTopicConfig]
  /\ UNCHANGED <<attendanceLog, heap, reqs, published, lastReply, now>>

\* a publish resolves only on a topic: without one the publisher throws
NextTopics ==
  \/ topicsCall
  \/ handleAttendance(MathClass, S1, FirstHash, 0)
  \/ \E r \in 1..MaxRequests :
       resolveTopicIdByType("attendance") # Missing /\ handleAttendancePublished(r)
  \/ \E r \in 1..MaxRequests : handleAttendanceCatch(r)
  \/ closeSession(MathClass, S1)
  \/ \E r \in 1..MaxRequests :
       resolveTopicIdByType("attendance") # Missing /\ closeSessionPublished(r)
  \/ \E r \in 1..MaxRequests : closeSessionCatch(r)
  \/ handleTelemetry(MathClass, S1, Sensors, Missing, 0)
  \/ \E r \in 1..MaxRequests :
       resolveTopicIdByType("telemetry") # Missing /\ handleTelemetryPublished(r)
  \/ \E r \in 1..MaxRequests : handleTelemetryCatch(r)

SpecTopics == InitTopics /\ [][NextTopics]_vars

-----------------------------------------------------------------------------
(* What the properties below speak of *)

IsClose(r) == reqs[r].kind = "close"

IsTap(r) == reqs[r].kind = "tap"

Answered(r) == reqs[r].pc = "done"

Roster(r) == RosterHashes(reqs[r].classId, reqs[r].session)

\* the messages request r has put on the topic
PublishedBy(r) == {i \in DOMAIN published : published[i].by = r}

HashesPublishedBy(r) == {published[i].payload.uidHash : i \in PublishedBy(r)}

\* the absent records on the topic for pseudonym h of a session
AbsentRecords(classId, session, h) ==
  {i \in DOMAIN published :
     /\ published[i].payload.status = "absent_marked"
     /\ published[i].payload.classId = classId
     /\ published[i].payload.session = session
     /\ published[i].payload.uidHash = h}

\* the present or late records on the topic for pseudonym h of a session
TapRecords(classId, session, h) ==
  {i \in DOMAIN published :
     /\ published[i].payload.status \in {"present_on_time", "late"}
     /\ published[i].payload.classId = classId
     /\ published[i].payload.session = session
     /\ published[i].payload.uidHash = h}

\* the pseudonyms close r has called the publisher for: those it published and
\* the one whose publish threw
Attempted(r) ==
  HashesPublishedBy(r) \cup
    (IF reqs[r].code = 500
       THEN {computeUidHash(rosterData[reqs[r].classId].students[reqs[r].idx].cardUidHex,
                            reqs[r].salt)}
       ELSE {})

Concurrent(a, b) == a \in reqs[b].during \/ b \in reqs[a].during

InSchedule(classId, session) ==
  /\ classId \in DOMAIN scheduleData
  /\ \E i \in DOMAIN scheduleData[classId].sessions :
       scheduleData[classId].sessions[i].id = session

-----------------------------------------------------------------------------
(* Reconciliation *)

\* C1: a close that no other request interleaves with and whose publishes all
\* succeed, on a ledger holding K of the N roster pseudonyms (K < N),
\* publishes exactly N - K records, all absent, one for each roster member
\* whose pseudonym was not in the ledger, and leaves all N roster pseudonyms
\* in the ledger (N members in all when the ledger held roster pseudonyms only).
C1_ReconciliationCompleteness ==
  \A r \in DOMAIN reqs :
    LET K == Cardinality(reqs[r].pre \cap Roster(r))
        N == Cardinality(Roster(r))
    IN (IsClose(r) /\ Answered(r) /\ reqs[r].code = 200 /\ reqs[r].alone /\ K < N) =>
         /\ Cardinality(PublishedBy(r)) = N - K
         /\ \A i \in PublishedBy(r) : published[i].payload.status = "absent_marked"
         /\ HashesPublishedBy(r) = Roster(r) \ reqs[r].pre
         /\ reqs[r].markedAbsent = N - K
         /\ reqs[r].post = reqs[r].pre \cup Roster(r)
         /\ Cardinality(reqs[r].post \cap Roster(r)) = N
         /\ (reqs[r].pre \subseteq Roster(r) => Cardinality(reqs[r].post) = N)
         /\ Roster(r) \subseteq Ledger(logKey(reqs[r].classId, reqs[r].session))

\* a close that ran alone on a ledger holding one of the two roster pseudonyms
C1_Witness ==
  \E r \in DOMAIN reqs :
    /\ IsClose(r) /\ Answered(r) /\ reqs[r].code = 200 /\ reqs[r].alone
    /\ Cardinality(reqs[r].pre \cap Roster(r)) = 1
    /\ Cardinality(PublishedBy(r)) = NumStudents - 1

\* C2 (as claimed): at most one present or late record is ever published per
\* pseudonym of a session, however many taps carry it.
C2_TapPublishedOnce ==
  \A r \in DOMAIN reqs :
    IsTap(r) =>
      Cardinality(TapRecords(reqs[r].classId, reqs[r].session, reqs[r].uidHash)) <= 1

\* C3 (as claimed): a close in which a publish failed is not answered with a
\* failure of the whole operation, and it still calls the publisher for every
\* roster member that was not in the ledger.
C3_PartialSuccessClose ==
  \A r \in DOMAIN reqs :
    (IsClose(r) /\ Answered(r) /\ reqs[r].alone) =>
      /\ reqs[r].code = 200
      /\ (Roster(r) \ reqs[r].pre) \subseteq Attempted(r)

\* C4 (as claimed): over closes that run one after the other, some of them
\* failing, no roster member gets a second published absent record for the
\* session.
C4_RetryPublishesOnlyTheFailed ==
  (\A r \in DOMAIN reqs : reqs[r].alone) =>
    \A r \in DOMAIN reqs :
      \A h \in Roster(r) :
        Cardinality(AbsentRecords(reqs[r].classId, reqs[r].session, h)) <= 1

\* C5 (as claimed): two closes of one session that run concurrently never both
\* publish an absent record for the same pseudonym.  (Stated for the runs
\* from InitAfterTap, where both closes get the one Set the Map holds.)
C5_ConcurrentClosesPublishOnce ==
  \A i, j \in DOMAIN published :
    (/\ i < j
     /\ published[i].payload.status = "absent_marked"
     /\ published[j].payload = published[i].payload
     /\ published[i].by # published[j].by) =>
      ~Concurrent(published[i].by, published[j].by)

\* C6 (as claimed): no absent record is published for a pseudonym that was in
\* the session's ledger when the close tested that member.
C6_TapNeverMarkedAbsent ==
  \A i \in DOMAIN published :
    published[i].payload.status = "absent_marked" => ~published[i].inLedger

\* C7 (as claimed): a pseudonym in the ledger entry of a session is in that
\* entry in every later state.
C7_LedgerMonotonic ==
  [][\A e \in attendanceLog : heap[e[2]] \subseteq LedgerIn(attendanceLog', heap', e[1])]_vars

\* C8 (as claimed): after a request whose publish failed, and that no other
\* request interleaved with, the session's ledger is what it was before.
C8_FailedPublishLeavesLedger ==
  \A r \in DOMAIN reqs :
    (Answered(r) /\ reqs[r].code = 500 /\ reqs[r].alone) => reqs[r].post = reqs[r].pre

\* C9: of two successful closes of one session in a row, with no step of any
\* other request during either, the second publishes nothing and reports
\* markedAbsent = 0 and no absentee.
C9_ReconciliationIdempotent ==
  \A r \in DOMAIN reqs :
    (/\ r + 1 \in DOMAIN reqs
     /\ IsClose(r) /\ IsClose(r + 1)
     /\ logKey(reqs[r].classId, reqs[r].session) = logKey(reqs[r + 1].classId, reqs[r + 1].session)
     /\ Answered(r) /\ reqs[r].code = 200 /\ reqs[r].alone
     /\ Answered(r + 1) /\ reqs[r + 1].code = 200 /\ reqs[r + 1].alone) =>
      /\ PublishedBy(r + 1) = {}
      /\ reqs[r + 1].markedAbsent = 0
      /\ reqs[r + 1].absentees = << >>

\* a second close right after a first one that marked every student absent
C9_Witness ==
  \E r \in DOMAIN reqs :
    /\ r + 1 \in DOMAIN reqs
    /\ IsClose(r) /\ IsClose(r + 1)
    /\ Answered(r) /\ reqs[r].code = 200 /\ reqs[r].alone
    /\ reqs[r].markedAbsent = NumStudents
    /\ Answered(r + 1) /\ reqs[r + 1].code = 200 /\ reqs[r + 1].alone

\* the requests that got past validation carry every required field and name
\* a session of the schedule (a close: of a class with a roster)
AcceptedAreValid ==
  \A r \in DOMAIN reqs :
    /\ reqs[r].classId # Missing
    /\ reqs[r].session # Missing
    /\ InSchedule(reqs[r].classId, reqs[r].session)
    /\ IsTap(r) => reqs[r].uidHash # Missing
    /\ IsClose(r) => reqs[r].classId \in DOMAIN rosterData

\* what a tap must carry, and what it must name, to be handled
TapComplete(in) == in.classId # Missing /\ in.session # Missing /\ in.uidHash # Missing

CloseComplete(in) == in.classId # Missing /\ in.session # Missing

\* the step that answers a rejected request: 400 for a missing field, 404 for
\* an unknown session or a class without roster, before any salt is derived,
\* with the log, its Sets, the topic and the requests in flight left as they
\* were
RejectedLeavesNoTrace ==
  /\ \A in \in TapInputs :
       (/\ ~(TapComplete(in) /\ InSchedule(in.classId, in.session))
        /\ handleAttendance(in.classId, in.session, in.uidHash, in.ts)) =>
         /\ lastReply'.code = IF TapComplete(in) THEN 404 ELSE 400
         /\ UNCHANGED <<attendanceLog, heap, published, reqs>>
  /\ \A in \in CloseInputs :
       (/\ ~(/\ CloseComplete(in)
             /\ InSchedule(in.classId, in.session)
             /\ in.classId \in DOMAIN rosterData)
        /\ closeSession(in.classId, in.session)) =>
         /\ lastReply'.code = IF CloseComplete(in) THEN 404 ELSE 400
         /\ lastReply'.salt = Missing
         /\ UNCHANGED <<attendanceLog, heap, published, reqs>>
  /\ lastReply' # lastReply =>
       /\ lastReply' # NoReply => lastReply'.code \in {400, 404} /\ lastReply'.salt = Missing
       /\ UNCHANGED <<attendanceLog, heap, published, reqs>>

\* C10: a request with a missing field, an unknown session or (for a close) a
\* class without roster is never accepted, and its answer, 400 or 404, comes
\* without any change to the ledger or any publication, and for a close
\* before the salt is derived.
C10_RejectionsHaveNoSideEffects ==
  [](AcceptedAreValid) /\ [][RejectedLeavesNoTrace]_vars

\* a close of a class without roster answered 404 after the topic got a message
C10_Witness ==
  /\ lastReply.kind = "close"
  /\ lastReply.code = 404
  /\ published # << >>
  /\ Ledger(logKey(MathClass, S1)) # {}

-----------------------------------------------------------------------------
(* Classification *)

\* C11: determineStatus answers present_on_time exactly when the event is no
\* later than T minutes (T * 60000 ms) after the start, and late otherwise:
\* on time at start + T * 60000, late one ms after that, on time for every
\* event before the start.
C11_ClassificationBoundary ==
  (call.fn = "determineStatus" /\ call.done) =>
    LET start == DateGetTime(call.startIso)
        limit == start + call.toleranceMinutes * 60000
    IN /\ call.result \in {"present_on_time", "late"}
       /\ call.result = "present_on_time" <=> call.ts <= limit
       /\ call.ts = limit => call.result = "present_on_time"
       /\ call.ts = limit + 1 => call.result = "late"
       /\ call.ts < start => call.result = "present_on_time"

\* an event one ms past the default tolerance has been classified late
C11_Witness ==
  /\ call.fn = "determineStatus"
  /\ call.done
  /\ call.toleranceMinutes = LATE_TOLERANCE_MIN
  /\ call.ts = DateGetTime(call.startIso) + LATE_TOLERANCE_MIN * 60000 + 1
  /\ call.result = "late"

\* C12 (as claimed): no record published by a tap is an absent record, and
\* every absent record comes from a close and is for a roster member of the
\* close's class whose pseudonym was not in the session's ledger when the
\* close tested it.
C12_AbsentOnlyByReconciliation ==
  \A i \in DOMAIN published :
    LET msg == published[i]
    IN /\ IsTap(msg.by) => msg.payload.status \in {"present_on_time", "late"}
       /\ msg.payload.status = "absent_marked" =>
            /\ IsClose(msg.by)
            /\ msg.payload.uidHash \in Roster(msg.by)
            /\ ~msg.inLedger

\* C13: a successful close that no other request interleaves with reports as
\* attended the number of pseudonyms the session's ledger held when the close
\* began, which is the size of the Set at the end less the absentees added.
C13_AttendedIsPreReconciliationSize ==
  \A r \in DOMAIN reqs :
    (IsClose(r) /\ Answered(r) /\ reqs[r].code = 200 /\ reqs[r].alone) =>
      /\ reqs[r].attended = Cardinality(reqs[r].pre)
      /\ reqs[r].attended = Cardinality(reqs[r].post) - reqs[r].markedAbsent

\* a close that ran alone on a ledger of one pseudonym and marked an absentee
C13_Witness ==
  \E r \in DOMAIN reqs :
    /\ IsClose(r) /\ Answered(r) /\ reqs[r].code = 200 /\ reqs[r].alone
    /\ Cardinality(reqs[r].pre) = 1
    /\ reqs[r].markedAbsent >= 1
    /\ reqs[r].attended = 1

-----------------------------------------------------------------------------
(* Pseudonyms *)

\* C14 (as claimed): two distinct (classId, sessionStartIso) pairs get
\* different salts, and one card gets different pseudonyms under them,
\* whatever the class ids and start strings contain, ':' included.
C14_DistinctSessionsDistinctSalts ==
  (call.fn = "deriveSessionSalt" /\ call.hashes # << >> /\ call.a # call.b) =>
    /\ call.salts[1] # call.salts[2]
    /\ call.hashes[1] # call.hashes[2]

\* what the roster holds about its students: card UIDs, student ids, names
RosterIdentities ==
  UNION {{rosterData[c].students[i].cardUidHex,
          rosterData[c].students[i].studentId,
          rosterData[c].students[i].name} :
           c \in DOMAIN rosterData, i \in 1..NumStudents}

C17_DeviceAndServerAgree ==
  call.fn = "simulator" =>
    LET sessionInfo == findSession(CLASS_ID, SESSION_ID)
        sessionSalt == deriveSessionSalt(SALT_SECRET, CLASS_ID, sessionInfo.startIso)
    IN /\ call.sessionSalt # Missing => call.sessionSalt = sessionSalt
       /\ \A t \in DOMAIN reqs :
            IsTap(t) =>
              /\ \E i \in 1..NumStudents :
                   /\ STUDENTS[i].cardUid = rosterData[CLASS_ID].students[i].cardUidHex
                   /\ reqs[t].uidHash =
                        computeUidHash(rosterData[CLASS_ID].students[i].cardUidHex, sessionSalt)
              /\ \A r \in DOMAIN reqs :
                   (IsClose(r) /\ t < r) => reqs[t].uidHash \notin HashesPublishedBy(r)

\* the simulator has tapped for a student, and a close that began later has
\* marked the other students absent
C17_Witness ==
  /\ call.fn = "simulator"
  /\ \E t, r \in DOMAIN reqs :
       /\ t < r
       /\ IsTap(t) /\ reqs[t].code = 200
       /\ IsClose(r) /\ Answered(r) /\ reqs[r].code = 200
       /\ reqs[r].markedAbsent = NumStudents - 1
       /\ Cardinality(PublishedBy(r)) = NumStudents - 1

-----------------------------------------------------------------------------
(* Late corrections: the server with a publisher that always settles *)

LiveTaps == {in \in TapInputs : TapComplete(in) /\ InSchedule(in.classId, in.session)}

NextLive ==
  \/ \E in \in LiveTaps : handleAttendance(in.classId, in.session, in.uidHash, in.ts)
  \/ \E r \in 1..MaxRequests : handleAttendancePublished(r)
  \/ \E r \in 1..MaxRequests : handleAttendanceCatch(r)
  \/ closeSession(MathClass, S1)
  \/ \E r \in 1..MaxRequests : closeSessionPublished(r)
  \/ \E r \in 1..MaxRequests : closeSessionCatch(r)

\* every await on publishToHCS ends: the promise resolves or rejects
SpecLive ==
  /\ Init
  /\ [][NextLive]_vars
  /\ \A r \in 1..MaxRequests :
       /\ WF_vars(handleAttendancePublished(r) \/ handleAttendanceCatch(r))
       /\ WF_vars(closeSessionPublished(r) \/ closeSessionCatch(r))

LateCorrectionOutcome ==
  \A t \in DOMAIN reqs :
    (IsTap(t) /\ reqs[t].afterAbsent) =>
      /\ reqs[t].status \in {"present_on_time", "late"}
      /\ reqs[t].uidHash \in Ledger(logKey(reqs[t].classId, reqs[t].session))
      /\ Answered(t) => reqs[t].code \in {200, 500}
      /\ reqs[t].code = 200 =>
           /\ Cardinality(PublishedBy(t)) = 1
           /\ \A i \in PublishedBy(t) :
                /\ published[i].payload.status = reqs[t].status
                /\ published[i].payload.uidHash = reqs[t].uidHash
      /\ reqs[t].code = 500 => PublishedBy(t) = {}

\* the step of a tap for such a pseudonym takes the tap in: no answer is given
\* before the publish, and the tap awaits the publisher
LateCorrectionTakenIn ==
  \A in \in LiveTaps :
    (/\ AbsentReconciled(in.classId, in.session, in.uidHash)
     /\ handleAttendance(in.classId, in.session, in.uidHash, in.ts)) =>
      /\ lastReply' = NoReply
      /\ Len(reqs') = Len(reqs) + 1
      /\ reqs'[Len(reqs')].pc = "await"
      /\ reqs'[Len(reqs')].afterAbsent

-----------------------------------------------------------------------------
(* The ledger *)

\* the attendance records on a topic
AttendanceRecords(topic) ==
  {i \in DOMAIN topic : topic[i].payload.type = "attendance"}

\* a step of an endpoint other than the tap and the close: the salt, telemetry
\* posted to /ingest/telemetry or to /ingest under any type but 'attendance',
\* a telemetry publish that resolves or throws, schedule, classes, health
OtherEndpointStep ==
  \/ \E q \in SaltQueries : sessionSaltRoute(q.classId, q.start)
  \/ \E body \in IngestBodies : body.type # <<"attendance">> /\ ingest(body)
  \/ \E body \in TelemetryBodies :
       handleTelemetry(body.classId, body.session, body.sensors, body.deviceId, body.ts)
  \/ \E r \in 1..MaxRequests : handleTelemetryPublished(r)
  \/ \E r \in 1..MaxRequests : handleTelemetryCatch(r)
  \/ \E classId \in {MathClass, NoClass} : schedule(classId)
  \/ classes
  \/ health

\* C19: the steps of GET /session/salt, of telemetry ingestion (POST
\* /ingest/telemetry, POST /ingest with a type other than 'attendance') and
\* of the schedule, classes and health endpoints leave the Map and every Set
\* of the ledger as they are and put no attendance record on the topic; the
\* ledger changes only in steps of taps and closes.
C19_OnlyTapAndCloseChangeLedger ==
  [][/\ OtherEndpointStep =>
          /\ UNCHANGED <<attendanceLog, heap>>
          /\ AttendanceRecords(published') = AttendanceRecords(published)
     /\ <<attendanceLog, heap>>' # <<attendanceLog, heap>> =>
          \/ /\ Len(reqs') = Len(reqs) + 1
             /\ reqs'[Len(reqs')].kind \in {"tap", "close"}
          \/ \E r \in DOMAIN reqs :
               reqs[r].kind = "close" /\ reqs[r].pc = "await" /\ reqs'[r] # reqs[r]]_vars

\* a telemetry message is on the topic next to an attendance record, the
\* ledger holds a tap, and the salt endpoint has answered
C19_Witness ==
  /\ \E i \in DOMAIN published : published[i].payload.type = "telemetry"
  /\ AttendanceRecords(published) # {}
  /\ Ledger(logKey(MathClass, S1)) # {}
  /\ lastReply.kind = "salt"
  /\ lastReply.code = 200

\* the step of a tap with input in whose pseudonym the session's ledger holds
\* leaves that ledger as it is; and when an earlier tap r carried the same
\* pseudonym for the session and the ledger is still what r left, it is
\* still that, in members and in size, after the step
SecondTapLeavesLedger(in) ==
  LET key == logKey(in.classId, in.session)
      after == LedgerIn(attendanceLog', heap', key)
  IN /\ in.uidHash \in Ledger(key) =>
          /\ after = Ledger(key)
          /\ Cardinality(after) = Cardinality(Ledger(key))
     /\ \A r \in DOMAIN reqs :
          (/\ IsTap(r)
           /\ reqs[r].classId = in.classId
           /\ reqs[r].session = in.session
           /\ reqs[r].uidHash = in.uidHash
           /\ Ledger(key) = reqs[r].pre \cup {in.uidHash}) =>
            /\ after = reqs[r].pre \cup {in.uidHash}
            /\ Cardinality(after) = Cardinality(reqs[r].pre \cup {in.uidHash})

\* C16: a second tap with the same pseudonym for the same session leaves the
\* session's ledger with the members and the size it had after the first.
C16_SecondTapIdempotent ==
  [][\A in \in TapInputs :
       (/\ TapComplete(in)
        /\ InSchedule(in.classId, in.session)
        /\ handleAttendance(in.classId, in.session, in.uidHash, in.ts)) =>
         SecondTapLeavesLedger(in)]_vars

\* two taps with the first student's pseudonym got in, the second when the
\* ledger held it, and the ledger holds that pseudonym alone
C16_Witness ==
  /\ Len(reqs) = 2
  /\ IsTap(1) /\ IsTap(2)
  /\ reqs[1].uidHash = FirstHash /\ reqs[2].uidHash = FirstHash
  /\ reqs[1].pre = {}
  /\ reqs[2].inLedger
  /\ Ledger(logKey(MathClass, S1)) = {FirstHash}

\* the (classId, session) pairs of the schedule
ScheduledPairs ==
  UNION {{<<c, scheduleData[c].sessions[i].id>> : i \in DOMAIN scheduleData[c].sessions} :
           c \in DOMAIN scheduleData}

\* the ledgers of the pairs other than (classId, session) are left as they are
OtherLedgersUnchanged(classId, session) ==
  \A p \in ScheduledPairs \ {<<classId, session>>} :
    LedgerIn(attendanceLog', heap', logKey(p[1], p[2])) = Ledger(logKey(p[1], p[2]))

\* C20 (as claimed): a step of a tap or of a close for (classId, session)
\* changes the ledger of no other scheduled pair, whatever characters the
\* ids hold.
C20_SessionsIndependent ==
  [][/\ \A in \in KeyTaps :
          handleAttendance(in.classId, in.session, in.uidHash, in.ts) =>
            OtherLedgersUnchanged(in.classId, in.session)
     /\ \A in \in KeyCloses :
          closeSession(in.classId, in.session) =>
            OtherLedgersUnchanged(in.classId, in.session)
     /\ \A r \in DOMAIN reqs :
          closeSessionPublished(r) =>
            OtherLedgersUnchanged(reqs[r].classId, reqs[r].session)]_vars

-----------------------------------------------------------------------------
(* Responses *)

\* C21: a tap that passed validation for a scheduled session and whose publish
\* succeeded is answered 200 with the status of its own timestamp (on time up
\* to LATE_TOLERANCE_MIN minutes after the start, late after) and with the
\* marker of the record the publisher took from it, whether or not its
\* pseudonym is on the roster.
C21_TapAnsweredWithStatusAndMarker ==
  \A t \in DOMAIN reqs :
    IsTap(t) =>
      LET req == reqs[t]
          start == DateGetTime(findSession(req.classId, req.session).startIso)
          classified == IF req.ts - start <= LATE_TOLERANCE_MIN * 60000
                          THEN "present_on_time" ELSE "late"
      IN /\ req.status = classified
         /\ PublishedBy(t) # {} => req.code = 200
         /\ req.code = 200 =>
              /\ PublishedBy(t) = {req.marker}
              /\ published[req.marker].payload =
                   Payload(req.classId, req.session, req.uidHash, classified, req.ts)

\* a stranger's tap and a roster member's late tap, sent while the server's
\* clock was at the start, have both been answered 200
C21_Witness ==
  /\ now = DateGetTime(Start1)
  /\ \E t \in DOMAIN reqs :
       /\ IsTap(t) /\ reqs[t].code = 200
       /\ reqs[t].uidHash = StrangerHash
       /\ reqs[t].uidHash \notin Roster(t)
  /\ \E t \in DOMAIN reqs :
       /\ IsTap(t) /\ reqs[t].code = 200
       /\ reqs[t].ts = LateTs
       /\ reqs[t].status = "late"

-----------------------------------------------------------------------------
(* The close loop *)

\* the place on the roster of the student with pseudonym h under close r's salt
StudentIndex(r, h) ==
  CHOOSE i \in 1..NumStudents :
    computeUidHash(rosterData[reqs[r].classId].students[i].cardUidHex, reqs[r].salt) = h

\* C22: the absent records of one close are on the topic in roster order, the
\* close awaits the publisher for one student at a time, a student after all
\* those it has published, and every one of its records carries the time the
\* close read from the clock when it began, however far the clock has moved.
C22_AbsentInRosterOrderSameTs ==
  \A r \in DOMAIN reqs :
    IsClose(r) =>
      /\ \A i, j \in PublishedBy(r) :
           i < j => StudentIndex(r, published[i].payload.uidHash)
                      < StudentIndex(r, published[j].payload.uidHash)
      /\ reqs[r].pc = "await" =>
           \A i \in PublishedBy(r) :
             StudentIndex(r, published[i].payload.uidHash) < reqs[r].idx
      /\ Len(reqs[r].absentees) = Cardinality(PublishedBy(r))
      /\ \A i \in PublishedBy(r) :
           /\ published[i].payload.status = "absent_marked"
           /\ published[i].payload.ts = reqs[r].ts
      /\ reqs[r].ts <= now

\* a close has published two absent records, the second after the clock had
\* moved on from the time the close began
C22_Witness ==
  \E r \in DOMAIN reqs :
    /\ IsClose(r) /\ Answered(r) /\ reqs[r].code = 200
    /\ Cardinality(PublishedBy(r)) >= 2
    /\ reqs[r].ts = DateGetTime(Start1)
    /\ now > reqs[r].ts
    /\ \E t \in DOMAIN reqs : IsTap(t) /\ t > r

-----------------------------------------------------------------------------
(* Topics *)

\* the topic a reported or resolved value names; null and undefined name none
TopicNamed(v) == IF v \in {Missing, Null} THEN Missing ELSE v

\* C23: every attendance record, of a tap or of a close, is on the topic of
\* TOPIC_ID_ATTENDANCE when that is set and on that of TOPIC_ID otherwise,
\* every telemetry record on the topic of TOPIC_ID_TELEMETRY when set and on
\* that of TOPIC_ID otherwise; getTopicConfig reports for each type the
\* topic resolveTopicIdByType resolves; and no attendance record is on the
\* dedicated telemetry topic.
C23_TopicRouting ==
  call.fn = "topics" =>
    LET env == call.env
        forAttendance == IF env.TOPIC_ID_ATTENDANCE # Missing
                           THEN env.TOPIC_ID_ATTENDANCE ELSE env.TOPIC_ID
        forTelemetry == IF env.TOPIC_ID_TELEMETRY # Missing
                          THEN env.TOPIC_ID_TELEMETRY ELSE env.TOPIC_ID
    IN /\ \A i \in DOMAIN published :
            /\ published[i].payload.type = "attendance" =>
                 /\ published[i].topicId = forAttendance
                 /\ env.TOPIC_ID_TELEMETRY # Missing =>
                      published[i].topicId # env.TOPIC_ID_TELEMETRY
            /\ published[i].payload.type = "telemetry" =>
                 published[i].topicId = forTelemetry
       /\ call.done =>
            /\ call.resolved["attendance"] = forAttendance
            /\ call.resolved["telemetry"] = forTelemetry
            /\ call.resolved["other"] = env.TOPIC_ID
            /\ TopicNamed(call.config.attendance) = TopicNamed(call.resolved["attendance"])
            /\ TopicNamed(call.config.telemetry) = TopicNamed(call.resolved["telemetry"])
            /\ TopicNamed(call.config.fallback) = TopicNamed(call.resolved["other"])

\* under an environment with a dedicated telemetry topic and no dedicated
\* attendance topic, a tap's record, an absent record and a telemetry record
\* are on their topics and the topics have been reported
C23_Witness ==
  /\ call.fn = "topics"
  /\ call.done
  /\ call.env.TOPIC_ID_ATTENDANCE = Missing
  /\ call.env.TOPIC_ID_TELEMETRY # Missing
  /\ \E i \in DOMAIN published : published[i].payload.type = "telemetry"
  /\ \E i \in DOMAIN published :
       published[i].payload.type = "attendance" /\ published[i].topicId = call.env.TOPIC_ID

-----------------------------------------------------------------------------
(* The counts of the close response *)

\* C24 (as claimed): in every successful close response attended plus
\* markedAbsent is totalStudents, whatever taps (those of pseudonyms not on
\* the roster included) and closes came before.
C24_AttendedPlusAbsentIsTotal ==
  \A r \in DOMAIN reqs :
    (IsClose(r) /\ Answered(r) /\ reqs[r].code = 200) =>
      reqs[r].attended + reqs[r].markedAbsent = reqs[r].totalStudents

\* the pseudonyms taps have recorded for the session of request r
TappedFor(r) ==
  {reqs[t].uidHash : t \in {u \in DOMAIN reqs :
                              /\ IsTap(u)
                              /\ reqs[u].classId = reqs[r].classId
                              /\ reqs[u].session = reqs[r].session}}

\* C25 (as claimed): the attended count of a close response counts pseudonyms
\* recorded by taps only, never one that is in the ledger because an earlier
\* close marked it absent.
C25_AttendedCountsOnlyTaps ==
  \A r \in DOMAIN reqs :
    (IsClose(r) /\ Answered(r) /\ reqs[r].code = 200) =>
      reqs[r].attended <= Cardinality(TappedFor(r) \cap reqs[r].post)

\* the topic holds an attendance record of some status for pseudonym h of the
\* session
HasRecord(classId, session, h) ==
  TapRecords(classId, session, h) \cup AbsentRecords(classId, session, h) # {}

\* C26 (as claimed): with no request in flight, every pseudonym in a session's
\* ledger has a published attendance record for the session, and after a
\* successful close every roster member has one, also when the publish of an
\* earlier tap failed.
C26_LedgerPseudonymsHaveRecord ==
  \A r \in DOMAIN reqs :
    /\ (\A q \in DOMAIN reqs : Answered(q)) =>
         \A h \in Ledger(logKey(reqs[r].classId, reqs[r].session)) :
           HasRecord(reqs[r].classId, reqs[r].session, h)
    /\ (IsClose(r) /\ Answered(r) /\ reqs[r].code = 200) =>
         \A h \in Roster(r) : HasRecord(reqs[r].classId, reqs[r].session, h)

\* C27 (as claimed): whatever the interleaving of a tap and a close of one
\* session, no absent record for a pseudonym is on the topic after a present
\* or late record for the same pseudonym and session.
C27_NoAbsentAfterPresent ==
  \A i, j \in DOMAIN published :
    (/\ i < j
     /\ published[i].payload.status \in {"present_on_time", "late"}
     /\ published[j].payload.classId = published[i].payload.classId
     /\ published[j].payload.session = published[i].payload.session
     /\ published[j].payload.uidHash = published[i].payload.uidHash) =>
      published[j].payload.status # "absent_marked"

\* the publisher calls close r has made: a message for each that returned and
\* the one that threw
PublishCalls(r) == Cardinality(PublishedBy(r)) + (IF reqs[r].code = 500 THEN 1 ELSE 0)

\* close r has called the publisher at most once for a roster entry: no two of
\* its messages are for one pseudonym, the call that threw was for a pseudonym
\* with no message, and there are no more calls than roster entries
OnePublishPerEntry(r) ==
  /\ \A i, j \in PublishedBy(r) :
       published[i].payload.uidHash = published[j].payload.uidHash => i = j
  /\ Cardinality(HashesPublishedBy(r)) = Cardinality(PublishedBy(r))
  /\ Cardinality(Attempted(r)) = PublishCalls(r)
  /\ PublishCalls(r) <= Len(rosterData[reqs[r].classId].students)

\* a response that was sent stays as it was sent
ResponseKept ==
  \A r \in DOMAIN reqs :
    (IsClose(r) /\ Answered(r)) =>
      /\ reqs'[r].pc = "done"
      /\ reqs'[r].code = reqs[r].code

\* C28: with a publisher whose every call returns or throws, every close is
\* answered in the end, the answer once sent is not replaced by another, and
\* the close calls the publisher at most once for a roster entry.
C28_CloseTerminates ==
  /\ [](\A r \in DOMAIN reqs : IsClose(r) => OnePublishPerEntry(r))
  /\ [][ResponseKept]_vars
  /\ \A r \in 1..MaxRequests :
       (r \in DOMAIN reqs /\ IsClose(r)) ~> (r \in DOMAIN reqs /\ Answered(r))

\* a close has been answered after a publisher call for every roster entry
C28_Witness ==
  \E r \in DOMAIN reqs :
    /\ IsClose(r) /\ Answered(r)
    /\ PublishCalls(r) = Len(rosterData[reqs[r].classId].students)
    /\ PublishCalls(r) > 1

-----------------------------------------------------------------------------
(* The badge contract EduAirBadge *)

\* the most badges minted in a run
MaxTokens == 2

ZeroAddress == "0x0"

\* the account that deploys, another account, and a contract that does not
\* implement onERC721Received
Deployer == "deployer"

Alice == "alice"

Refuser == "refuser"

Accounts == {Deployer, Alice}

Addresses == Accounts \cup {ZeroAddress, Refuser}

\* the addresses badges are minted to
Recipients == {Alice, ZeroAddress, Refuser}

\* the token ids transactions name, and the ids storage has a slot for: a
\* batch of two that starts at MaxTokens stays within them
TokenIds == 0..(MaxTokens - 1)

Slots == 0..(MaxTokens + 2)

Uris == {<<"ipfs://Qm1">>}

\* the contract after its constructor: no token, owned by the deployer
Deployed(soulbound) ==
  [isSoulbound |-> soulbound,
   owner |-> Deployer,
   nextTokenId |-> 0,
   owners |-> [t \in Slots |-> ZeroAddress],
   tokenApprovals |-> [t \in Slots |-> ZeroAddress],
   tokenURIs |-> [t \in Slots |-> Missing],
   events |-> << >>]

\* what a function leaves: whether it returned, and the storage it reached
Return(c) == [ok |-> TRUE, c |-> c]

Revert(c) == [ok |-> FALSE, c |-> c]

\* a transaction that keeps what a reverted call had written
TransactPartial(c, out) == out.c

\* the storage after a transaction: a revert restores what it was before
Transact(c, out) == IF out.ok THEN out.c ELSE c

\* Ownable's modifier: the caller is the owner
onlyOwner(c, sender) == sender = c.owner

ownerOf(c, tokenId) == c.owners[tokenId]

\* ERC721._isAuthorized, without operator approvals
isAuthorized(c, owner, spender, tokenId) ==
  /\ spender # ZeroAddress
  /\ owner = spender \/ c.tokenApprovals[tokenId] = spender

\* ERC721._update: checks auth when there is one, clears the approval and
\* writes the owner
superUpdate(c, to, tokenId, auth) ==
  LET from == ownerOf(c, tokenId)
  IN IF auth # ZeroAddress /\ ~isAuthorized(c, from, auth, tokenId)
       THEN Revert(c)
       ELSE Return([c EXCEPT !.tokenApprovals[tokenId] = ZeroAddress,
                             !.owners[tokenId] = to])

\* _update without the soulbound test
updateAllowed(c, to, tokenId, auth) == superUpdate(c, to, tokenId, auth)

\* _update: a transfer of a soulbound token reverts; a mint (from the zero
\* address) goes on to ERC721._update
update(c, to, tokenId, auth) ==
  LET from == ownerOf(c, tokenId)
  IN IF c.isSoulbound /\ from # ZeroAddress /\ to # ZeroAddress
       THEN Revert(c)
       ELSE superUpdate(c, to, tokenId, auth)

\* ERC721._safeMint: no mint to the zero address, none of a token that
\* exists, none to a contract that does not accept it
safeMint(c, to, tokenId) ==
  IF to = ZeroAddress THEN Revert(c)
  ELSE LET from == ownerOf(c, tokenId)
           out == update(c, to, tokenId, ZeroAddress)
       IN IF ~out.ok THEN out
          ELSE IF from # ZeroAddress THEN Revert(out.c)
          ELSE IF to = Refuser THEN Revert(out.c)
          ELSE out

\* mint
mint(c, sender, to, uri) ==
  IF ~onlyOwner(c, sender) THEN Revert(c)
  ELSE LET tokenId == c.nextTokenId
           c1 == [c EXCEPT !.nextTokenId = @ + 1]
           out == safeMint(c1, to, tokenId)
       IN IF ~out.ok THEN out
          ELSE Return([out.c EXCEPT
                         !.tokenURIs[tokenId] = uri,
                         !.events = Append(@, [to |-> to, tokenId |-> tokenId, uri |-> uri])])

\* the for loop of mintBatch from recipient i
RECURSIVE MintEach(_, _, _, _, _)
MintEach(c, sender, recipients, uris, i) ==
  IF i > Len(recipients) THEN Return(c)
  ELSE LET out == mint(c, sender, recipients[i], uris[i])
       IN IF out.ok THEN MintEach(out.c, sender, recipients, uris, i + 1) ELSE out

\* mintBatch
mintBatch(c, sender, recipients, uris) ==
  IF ~onlyOwner(c, sender) THEN Revert(c)
  ELSE IF Len(recipients) # Len(uris) THEN Revert(c)
  ELSE MintEach(c, sender, recipients, uris, 1)

totalSupply(c) == c.nextTokenId

\* ERC721.transferFrom
transferFrom(c, sender, from, to, tokenId) ==
  IF to = ZeroAddress THEN Revert(c)
  ELSE LET previousOwner == ownerOf(c, tokenId)
           out == update(c, to, tokenId, sender)
       IN IF ~out.ok THEN out
          ELSE IF previousOwner # from THEN Revert(out.c)
          ELSE out

\* ERC721.approve
approve(c, sender, to, tokenId) ==
  IF ownerOf(c, tokenId) = ZeroAddress THEN Revert(c)
  ELSE IF ownerOf(c, tokenId) # sender THEN Revert(c)
  ELSE Return([c EXCEPT !.tokenApprovals[tokenId] = to])

\* Ownable.transferOwnership
transferOwnership(c, sender, newOwner) ==
  IF ~onlyOwner(c, sender) THEN Revert(c)
  ELSE IF newOwner = ZeroAddress THEN Revert(c)
  ELSE Return([c EXCEPT !.owner = newOwner])

\* the transaction last sent to the contract: the function, msg.sender, the
\* arguments (for a mint, tokenId is _nextTokenId before the call, and n and m
\* are the lengths of recipients and uris) and whether it returned
Tx(name, sender, from, to, tokenId, n, m, ok) ==
  [name |-> name, sender |-> sender, from |-> from, to |-> to, tokenId |-> tokenId,
   n |-> n, m |-> m, ok |-> ok]

\* the contract is deployed, soulbound or not; the server has received nothing
InitBadge ==
  /\ ServerIdle
  /\ call \in {[fn |-> "badge", c |-> Deployed(soulbound),
                 tx |-> Tx("constructor", Deployer, ZeroAddress, ZeroAddress, 0, 0, 0, TRUE)] :
                 soulbound \in BOOLEAN}

mintCall(sender, to, uri) ==
  /\ call.fn = "badge"
  /\ call.c.nextTokenId <= MaxTokens
  /\ LET out == mint(call.c, sender, to, uri)
     IN /\ totalSupply(Transact(call.c, out)) <= MaxTokens
        /\ call' = [call EXCEPT !.c = Transact(call.c, out),
                                !.tx = Tx("mint", sender, ZeroAddress, to,
                                          call.c.nextTokenId, 1, 1, out.ok)]
  /\ UNCHANGED <<attendanceLog, heap, reqs, published, lastReply, now>>

mintBatchCall(sender, recipients, uris) ==
  /\ call.fn = "badge"
  /\ call.c.nextTokenId <= MaxTokens
  /\ LET out == mintBatch(call.c, sender, recipients, uris)
     IN /\ totalSupply(Transact(call.c, out)) <= MaxTokens
        /\ call' = [call EXCEPT !.c = Transact(call.c, out),
                                !.tx = Tx("mintBatch", sender, ZeroAddress, ZeroAddress,
                                          call.c.nextTokenId, Len(recipients), Len(uris),
                                          out.ok)]
  /\ UNCHANGED <<attendanceLog, heap, reqs, published, lastReply, now>>

transferFromCall(sender, from, to, tokenId) ==
  /\ call.fn = "badge"
  /\ LET out == transferFrom(call.c, sender, from, to, tokenId)
     IN call' = [call EXCEPT !.c = Transact(call.c, out),
                             !.tx = Tx("transferFrom", sender, from, to, tokenId, 0, 0, out.ok)]
  /\ UNCHANGED <<attendanceLog, heap, reqs, published, lastReply, now>>

approveCall(sender, to, tokenId) ==
  /\ call.fn = "badge"
  /\ LET out == approve(call.c, sender, to, tokenId)
     IN call' = [call EXCEPT !.c = Transact(call.c, out),
                             !.tx = Tx("approve", sender, ZeroAddress, to, tokenId, 0, 0, out.ok)]
  /\ UNCHANGED <<attendanceLog, heap, reqs, published, lastReply, now>>

transferOwnershipCall(sender, newOwner) ==
  /\ call.fn = "badge"
  /\ LET out == transferOwnership(call.c, sender, newOwner)
     IN call' = [call EXCEPT !.c = Transact(call.c, out),
                             !.tx = Tx("transferOwnership", sender, ZeroAddress, newOwner, 0, 0, 0, out.ok)]
  /\ UNCHANGED <<attendanceLog, heap, reqs, published, lastReply, now>>

\* the arrays given to mintBatch: none, one or two recipients, the zero
\* address first or second among them, and none, one or two uris
Batches ==
  {<< >>, <<Alice>>, <<ZeroAddress>>, <<Alice, Alice>>, <<Alice, ZeroAddress>>,
   <<ZeroAddress, Alice>>}

UriLists == {<< >>} \cup {<<u>> : u \in Uris} \cup {<<u, v>> : u, v \in Uris}

NextBadge ==
  \/ \E sender \in Accounts, to \in Recipients, uri \in Uris : mintCall(sender, to, uri)
  \/ \E sender \in Accounts, recipients \in Batches, uris \in UriLists :
       mintBatchCall(sender, recipients, uris)
  \/ \E sender \in Accounts, from \in Accounts, to \in Accounts \cup {ZeroAddress},
        tokenId \in TokenIds : transferFromCall(sender, from, to, tokenId)
  \/ \E sender \in Accounts, to \in Accounts, tokenId \in TokenIds :
       approveCall(sender, to, tokenId)
  \/ \E sender \in Accounts, newOwner \in Accounts \cup {ZeroAddress} :
       transferOwnershipCall(sender, newOwner)

SpecBadge == InitBadge /\ [][NextBadge]_vars

-----------------------------------------------------------------------------
(* Badges *)

\* the tokens that have an owner
Minted(c) == {t \in Slots : ownerOf(c, t) # ZeroAddress}

\* C29: totalSupply is the number of badges minted; the badges minted have the
\* ids 0 .. totalSupply - 1, each once, in the order they were minted; a mint
\* or a batch returns only when the owner sent it; a batch whose two arrays
\* differ in length reverts; and after a batch or a mint that reverted,
\* totalSupply and the tokens are what they were before it.
C29_BadgeSupply ==
  call.fn = "badge" =>
    LET c == call.c
        tx == call.tx
    IN /\ totalSupply(c) = Len(c.events)
       /\ \A i \in DOMAIN c.events : c.events[i].tokenId = i - 1
       /\ Minted(c) = 0..(totalSupply(c) - 1)
       /\ tx.name \in {"mint", "mintBatch"} =>
            /\ tx.ok => tx.sender = c.owner
            /\ tx.ok => totalSupply(c) = tx.tokenId + tx.n
            /\ tx.n # tx.m => ~tx.ok
            /\ ~tx.ok => totalSupply(c) = tx.tokenId

\* after badges were minted, a batch the owner sent with two recipients and
\* two uris has reverted at one of its mints
C29_Witness ==
  /\ call.fn = "badge"
  /\ call.tx.name = "mintBatch"
  /\ call.tx.n = 2 /\ call.tx.m = 2 /\ call.tx.sender = call.c.owner
  /\ ~call.tx.ok
  /\ totalSupply(call.c) > 0

\* C30: in a contract deployed soulbound a mint returns and the owner of a
\* minted token is for ever the address it was minted to: every transfer
\* reverts; in a contract deployed otherwise a transfer reverts for ERC721's
\* reasons only (the zero address as receiver, no such token, a sender that is
\* neither the owner nor approved, a wrong from) and one that returns makes
\* the receiver the owner.
C30_Soulbound ==
  call.fn = "badge" =>
    LET c == call.c
        tx == call.tx
    IN /\ c.isSoulbound =>
            /\ \A i \in DOMAIN c.events : ownerOf(c, c.events[i].tokenId) = c.events[i].to
            /\ tx.name = "transferFrom" => ~tx.ok
            /\ (tx.name = "mint" /\ tx.sender = c.owner /\ tx.to = Alice) => tx.ok
       /\ (~c.isSoulbound /\ tx.name = "transferFrom") =>
            /\ tx.ok => ownerOf(c, tx.tokenId) = tx.to
            /\ ~tx.ok =>
                 \/ tx.to = ZeroAddress
                 \/ ownerOf(c, tx.tokenId) = ZeroAddress
                 \/ ~isAuthorized(c, ownerOf(c, tx.tokenId), tx.sender, tx.tokenId)
                 \/ ownerOf(c, tx.tokenId) # tx.from

\* the owner of a soulbound badge has asked for its transfer to another
\* account, and the transfer reverted
C30_Witness ==
  /\ call.fn = "badge"
  /\ call.c.isSoulbound
  /\ call.tx.name = "transferFrom"
  /\ call.tx.tokenId \in Minted(call.c)
  /\ call.tx.sender = ownerOf(call.c, call.tx.tokenId)
  /\ call.tx.from = call.tx.sender
  /\ call.tx.to \in Accounts \ {call.tx.sender}
  /\ ~call.tx.ok

====
